---- MODULE Spec2Model ----
(***************************************************************************)
(* Model of ui/src/sandbox.rs: the Sandbox that stages submitted source    *)
(* into a temporary input file, runs a docker command over it and turns    *)
(* the process output (and an optional artifact file) into a response.     *)
(*                                                                         *)
(* Byte strings are sequences of byte values.  Command lines are sequences *)
(* of strings.  The host file system is a function from host paths to file *)
(* states.  Every I/O call of the code is a nondeterministic choice        *)
(* between success and an I/O error.                                       *)
(***************************************************************************)
EXTENDS Naturals, Sequences, FiniteSets, TLC

VARIABLES
    input_file,   \* Sandbox.input_file: host path of the temporary source file
    output_dir,   \* Sandbox.output_dir: host path of the temporary output directory
    fork_bomb_prevention, \* cfg!(feature = "fork-bomb-prevention") of the build
    fs,           \* host file system: path -> [exists, data]
    pc,           \* position of the current call: "idle", "run", "finish", "done"
    req,          \* the request of the current (or last) call
    cmd,          \* the argument vector handed to Command (the last one built)
    output,       \* std::process::Output of command.output()
    result,       \* what the last finished call returned
    log,          \* the I/O steps the current call has made, in order: each
                  \* with its path, the I/O error met and what the code saw
    env           \* what the sandboxed process of this call did to the mounted files

vars == <<input_file, output_dir, fork_bomb_prevention, fs, pc, req, cmd,
          output, result, log, env>>

-----------------------------------------------------------------------------
(* Bounds and input sets *)

\* longest submitted source, in bytes
MaxLen == 2

\* capacity of the BufWriter that write_source_code wraps the file in, scaled
\* down so that sources both below and at/above it occur
BufCap == 2

\* 'a', and the two bytes of U+00E9; 195 alone is a truncated sequence
Alphabet == {97, 195, 169}

BoundedSeq(S, n) == UNION {[1..k -> S] : k \in 0..n}

\* the temporary names mktemp hands out: the first to new_file, the second
\* to new_dir
InputName == "/tmp/a"
OutputName == "/tmp/b"
TempPaths == {InputName, OutputName}

-----------------------------------------------------------------------------
(* UTF-8, as String::from_utf8 and read_to_string validate it (restricted   *)
(* to one- and two-byte sequences)                                          *)

RECURSIVE IsUtf8(_)
IsUtf8(v) ==
    IF Len(v) = 0 THEN TRUE
    ELSE IF v[1] < 128 THEN IsUtf8(Tail(v))
    ELSE IF v[1] >= 194 /\ v[1] <= 223
         THEN /\ Len(v) >= 2
              /\ v[2] >= 128 /\ v[2] <= 191
              /\ IsUtf8(Tail(Tail(v)))
    ELSE FALSE

\* a Rust String / &str: always valid UTF-8
Sources == {s \in BoundedSeq(Alphabet, MaxLen) : Len(s) > 0 /\ IsUtf8(s)}

\* what a process may print on stdout or stderr: text, or bytes that are no text
ProcOutputs == {<<75>>, <<195>>}

\* what the compiler may emit into an artifact file
Artifacts == {<<46>>, <<46, 195>>}

StrictPrefixes(v) == {SubSeq(v, 1, k) : k \in 0..(Len(v) - 1)}

-----------------------------------------------------------------------------
(* Results *)

\* Result<String>
Ok(v) == [ok |-> TRUE, val |-> v, err |-> "none"]
Err(e) == [ok |-> FALSE, val |-> <<>>, err |-> e]

None == [some |-> FALSE, str |-> <<>>]
Some(s) == [some |-> TRUE, str |-> s]

Absent == [exists |-> FALSE, data |-> <<>>]
File(d) == [exists |-> TRUE, data |-> d]

\* vec_to_str dropping bytes that are no text instead of failing
vec_to_str_lossy(v) == IF IsUtf8(v) THEN Ok(v) ELSE Ok(<<>>)

\* fn vec_to_str(v: Vec<u8>) -> Result<String>
vec_to_str(v) == IF IsUtf8(v) THEN Ok(v) ELSE Err("OutputNotUtf8")

\* read with every error of File::open taken for a missing file
read_any_open_error_is_none(f, io) ==
    IF io = "open" \/ ~f.exists THEN [ok |-> TRUE, opt |-> None, err |-> "none"]
    ELSE IF io = "read" \/ ~IsUtf8(f.data)
         THEN [ok |-> FALSE, opt |-> None, err |-> "UnableToReadOutput"]
    ELSE [ok |-> TRUE, opt |-> Some(f.data), err |-> "none"]

\* fn read(path: &Path) -> Result<Option<String>>, on a file in state f;
\* io is the outcome of the system calls: "ok", or an error other than NotFound
\* on open ("open") or on read ("read")
read(f, io) ==
    IF io = "open" THEN [ok |-> FALSE, opt |-> None, err |-> "UnableToReadOutput"]
    ELSE IF ~f.exists THEN [ok |-> TRUE, opt |-> None, err |-> "none"]
    ELSE IF io = "read" \/ ~IsUtf8(f.data)
         THEN [ok |-> FALSE, opt |-> None, err |-> "UnableToReadOutput"]
    ELSE [ok |-> TRUE, opt |-> Some(f.data), err |-> "none"]

-----------------------------------------------------------------------------
(* Command Builder *)

Channels == {"Stable", "Beta", "Nightly"}
Modes == {"Debug", "Release"}
CompileTargets == {"Assembly", "LlvmIr"}
NoTarget == "None"

\* Channel::container_name
container_name(channel) ==
    CASE channel = "Stable"  -> "rust-stable"
      [] channel = "Beta"    -> "rust-beta"
      [] channel = "Nightly" -> "rust-nightly"

\* build_execution_command with the tests flag deciding the subcommand of a
\* compile request as well
build_execution_command_tests_first(target, mode, tests) ==
    LET sub == IF tests THEN <<"test">>
               ELSE IF target # NoTarget THEN <<"rustc">> ELSE <<"run">>
        rel == IF mode = "Release" THEN <<"--release">> ELSE <<>>
        out == IF target # NoTarget
               THEN <<"--", "-o", "/playground-result/compilation">>
                    \o (IF target = "Assembly" THEN <<"--emit=asm">>
                                                ELSE <<"--emit=llvm-ir">>)
               ELSE <<>>
    IN  <<"cargo">> \o sub \o rel \o out

\* fn build_execution_command(target: Option<CompileTarget>, mode, tests)
build_execution_command(target, mode, tests) ==
    LET sub == IF target # NoTarget THEN <<"rustc">>
               ELSE IF tests THEN <<"test">> ELSE <<"run">>
        rel == IF mode = "Release" THEN <<"--release">> ELSE <<>>
        out == IF target # NoTarget
               THEN <<"--", "-o", "/playground-result/compilation">>
                    \o (IF target = "Assembly" THEN <<"--emit=asm">>
                                                ELSE <<"--emit=llvm-ir">>)
               ELSE <<>>
    IN  <<"cargo">> \o sub \o rel \o out

\* docker_command without the --net none pair
docker_command_with_network(in, out, fbp) ==
    <<"run", "--rm",
      "--volume", in \o ":" \o "/playground/src/main.rs",
      "--volume", out \o ":" \o "/playground-result",
      "--workdir", "/playground",
      "--memory", "256m",
      "--memory-swap", "320m",
      "--env", "PLAYGROUND_TIMEOUT=10",
      "--env", "RUST_BACKTRACE=1">>
    \o (IF fbp THEN <<"--pids-limit", "512">> ELSE <<>>)

\* Sandbox::docker_command; the mount arguments are the host path with
\* ":" and the in-sandbox path pushed onto it
docker_command(in, out, fbp) ==
    <<"run", "--rm",
      "--volume", in \o ":" \o "/playground/src/main.rs",
      "--volume", out \o ":" \o "/playground-result",
      "--workdir", "/playground",
      "--net", "none",
      "--memory", "256m",
      "--memory-swap", "320m",
      "--env", "PLAYGROUND_TIMEOUT=10",
      "--env", "RUST_BACKTRACE=1">>
    \o (IF fbp THEN <<"--pids-limit", "512">> ELSE <<>>)

\* Sandbox::compile_command
compile_command(in, out, fbp, target, channel, mode, tests) ==
    docker_command(in, out, fbp) \o <<container_name(channel)>>
        \o build_execution_command(target, mode, tests)

\* Sandbox::execute_command
execute_command(in, out, fbp, channel, mode, tests) ==
    docker_command(in, out, fbp) \o <<container_name(channel)>>
        \o build_execution_command(NoTarget, mode, tests)

\* Sandbox::format_command
format_command(in, out, fbp) ==
    docker_command(in, out, fbp) \o <<"rustfmt">>
        \o <<"--write-mode", "overwrite", "src/main.rs">>

\* Sandbox::clippy_command
clippy_command(in, out, fbp) ==
    docker_command(in, out, fbp) \o <<"clippy">> \o <<"cargo", "clippy">>

\* result_file_name with the two arms of the match exchanged
result_file_name_swapped(target) ==
    IF target = "Assembly" THEN "compilation.ll" ELSE "compilation.s"

\* the file name compile pushes onto output_dir (the match on req.target)
result_file_name(target) ==
    IF target = "Assembly" THEN "compilation.s" ELSE "compilation.ll"

\* PathBuf::push of a relative component
Join(dir, name) == dir \o "/" \o name

-----------------------------------------------------------------------------
(* The docker command line, as the isolation engine reads it *)

\* the options of `docker run` that take a value; --rm takes none
ValueOptions == {"--volume", "--workdir", "--net", "--memory", "--memory-swap",
                 "--env", "--pids-limit"}

\* index of the first positional argument after `run`: the image
RECURSIVE ImageIndex(_, _)
ImageIndex(args, i) ==
    IF i > Len(args) THEN i
    ELSE IF args[i] = "--rm" THEN ImageIndex(args, i + 1)
    ELSE IF args[i] \in ValueOptions THEN ImageIndex(args, i + 2)
    ELSE i

Wrapper(args) == SubSeq(args, 1, ImageIndex(args, 2) - 1)
Image(args) ==
    IF ImageIndex(args, 2) <= Len(args) THEN args[ImageIndex(args, 2)] ELSE ""
Inner(args) == SubSeq(args, ImageIndex(args, 2) + 1, Len(args))

\* the wrapper gives option opt the value v
HasOption(args, opt, v) ==
    \E i \in 1..(ImageIndex(args, 2) - 2) : args[i] = opt /\ args[i + 1] = v

\* the value following flag in a command line, "" when there is none
ValueAfter(seq, flag) ==
    IF \E i \in 1..(Len(seq) - 1) : seq[i] = flag
    THEN seq[(CHOOSE i \in 1..(Len(seq) - 1) : seq[i] = flag) + 1]
    ELSE ""

Range(seq) == {seq[i] : i \in 1..Len(seq)}

\* the in-sandbox mount points and the files below them that the tools touch
MountPoints == {"/playground/src/main.rs", "/playground-result"}
Below == {"", "/compilation.s", "/compilation.ll"}
HostFiles == {h \o b : h \in TempPaths, b \in Below}

\* the host files an in-sandbox path names through the --volume mounts
\* (none when the path lies on the container's own, discarded, file system)
HostOf(args, cpath) ==
    {m.h \o m.b : m \in {x \in [h : TempPaths, t : MountPoints, b : Below] :
                            /\ HasOption(args, "--volume", x.h \o ":" \o x.t)
                            /\ cpath = x.t \o x.b}}

\* the in-sandbox file `cargo rustc -- -o P --emit=K` emits: P with the
\* extension of K; "" for every other command
EmittedFile(args) ==
    LET in == Inner(args) IN
    IF Len(in) >= 2 /\ in[1] = "cargo" /\ in[2] = "rustc" /\ ValueAfter(in, "-o") # ""
    THEN IF "--emit=asm" \in Range(in) THEN ValueAfter(in, "-o") \o ".s"
         ELSE IF "--emit=llvm-ir" \in Range(in) THEN ValueAfter(in, "-o") \o ".ll"
         ELSE ""
    ELSE ""

\* the in-sandbox file `rustfmt --write-mode overwrite F` rewrites in place,
\* F taken relative to the working directory; "" for every other command
RewrittenFile(args) ==
    LET in == Inner(args) IN
    IF Image(args) = "rustfmt" /\ ValueAfter(in, "--write-mode") = "overwrite"
       /\ Len(in) >= 3
    THEN ValueAfter(args, "--workdir") \o "/" \o in[Len(in)]
    ELSE ""

\* what a run of the command may do to the host file system f: the compiler
\* emits its artifact or not, the formatter rewrites its file, leaves it or
\* loses it; what is written outside the mounts goes with the container.
\* fs is the file system left behind, wrote the artifact the run emitted.
ProcessEffects(args, f) ==
    LET emitted == HostOf(args, EmittedFile(args))
        rewritten == HostOf(args, RewrittenFile(args))
        unchanged == {[fs |-> f, wrote |-> Absent]}
        emits == {[fs |-> [p \in HostFiles |->
                             IF p \in emitted THEN File(a) ELSE f[p]],
                   wrote |-> File(a)] : a \in Artifacts}
        rewrites == {[fs |-> [p \in HostFiles |->
                                IF p \in rewritten THEN File(s) ELSE f[p]],
                      wrote |-> Absent] : s \in Sources}
        loses == {[fs |-> [p \in HostFiles |->
                             IF p \in rewritten THEN Absent ELSE f[p]],
                   wrote |-> Absent]}
    IN  unchanged
        \cup (IF EmittedFile(args) = "" THEN {} ELSE emits)
        \cup (IF RewrittenFile(args) = "" THEN {} ELSE rewrites \cup loses)

-----------------------------------------------------------------------------
(* The operations of Sandbox *)

\* Sandbox::write_source_code on an input file in state f: the outcomes of
\* File::create (truncating), BufWriter::write_all and the drop of the
\* BufWriter.  Data of at least the buffer's capacity is written through by
\* write_all, whose error is returned; data shorter than that (the whole
\* source, or what a partial write-through left over) stays in the buffer
\* and is flushed when the BufWriter is dropped, where an error is discarded.
\* io names the call that met an I/O error ("ok" when none did), ok is
\* whether write_source_code returns Ok(()), file is the file left behind.
write_source_code(f, data) ==
    {[io |-> "create", ok |-> FALSE, file |-> f]}
    \cup {[io |-> "ok", ok |-> TRUE, file |-> File(data)]}
    \cup (IF Len(data) >= BufCap
          THEN {[io |-> "write", ok |-> FALSE, file |-> File(p)] :
                  p \in StrictPrefixes(data)}
               \cup {[io |-> "flush", ok |-> TRUE, file |-> File(p)] :
                  p \in {q \in StrictPrefixes(data) :
                           Len(q) > 0 /\ Len(data) - Len(q) < BufCap}}
          ELSE {[io |-> "flush", ok |-> TRUE, file |-> File(p)] :
                  p \in StrictPrefixes(data)})

\* a try! that lets the call go on after an error
try_ignoring_errors(r, next) == next

\* try!: where the call goes after a step with result r
try(r, next) == IF r.ok THEN next ELSE "done"

NoResp == [success |-> FALSE]
Pending == [ok |-> FALSE, resp |-> NoResp, err |-> "pending"]
Failed(e) == [ok |-> FALSE, resp |-> NoResp, err |-> e]
Returned(r) == [ok |-> TRUE, resp |-> r, err |-> "none"]

NoOutput == [status |-> FALSE, stdout |-> <<>>, stderr |-> <<>>]

\* the Ok(CompileResponse { .. }) expression of Sandbox::compile: the fields
\* are evaluated in the order written, each try! returning its error
compile_response(out, code) ==
    IF ~code.ok THEN Failed(code.err)
    ELSE IF ~vec_to_str(out.stdout).ok THEN Failed(vec_to_str(out.stdout).err)
    ELSE IF ~vec_to_str(out.stderr).ok THEN Failed(vec_to_str(out.stderr).err)
    ELSE Returned([success |-> out.status,
                   code    |-> IF code.opt.some THEN code.opt.str ELSE <<>>,
                   stdout  |-> vec_to_str(out.stdout).val,
                   stderr  |-> vec_to_str(out.stderr).val])

\* execute_response with a non-zero exit status reported as an error
execute_response_status_is_error(out) ==
    IF ~out.status THEN Failed("UnableToExecuteCompiler")
    ELSE IF ~vec_to_str(out.stdout).ok THEN Failed(vec_to_str(out.stdout).err)
    ELSE IF ~vec_to_str(out.stderr).ok THEN Failed(vec_to_str(out.stderr).err)
    ELSE Returned([success |-> out.status,
                   stdout  |-> vec_to_str(out.stdout).val,
                   stderr  |-> vec_to_str(out.stderr).val])

\* the Ok(ExecuteResponse { .. }) expression of Sandbox::execute
execute_response(out) ==
    IF ~vec_to_str(out.stdout).ok THEN Failed(vec_to_str(out.stdout).err)
    ELSE IF ~vec_to_str(out.stderr).ok THEN Failed(vec_to_str(out.stderr).err)
    ELSE Returned([success |-> out.status,
                   stdout  |-> vec_to_str(out.stdout).val,
                   stderr  |-> vec_to_str(out.stderr).val])

\* format_response with a missing file read as empty code, as compile does
format_response_missing_is_empty(out, code) ==
    IF ~code.ok THEN Failed(code.err)
    ELSE IF ~vec_to_str(out.stdout).ok THEN Failed(vec_to_str(out.stdout).err)
    ELSE IF ~vec_to_str(out.stderr).ok THEN Failed(vec_to_str(out.stderr).err)
    ELSE Returned([success |-> out.status,
                   code    |-> IF code.opt.some THEN code.opt.str ELSE <<>>,
                   stdout  |-> vec_to_str(out.stdout).val,
                   stderr  |-> vec_to_str(out.stderr).val])

\* the Ok(FormatResponse { .. }) expression of Sandbox::format
format_response(out, code) ==
    IF ~code.ok THEN Failed(code.err)
    ELSE IF ~code.opt.some THEN Failed("OutputMissing")
    ELSE IF ~vec_to_str(out.stdout).ok THEN Failed(vec_to_str(out.stdout).err)
    ELSE IF ~vec_to_str(out.stderr).ok THEN Failed(vec_to_str(out.stderr).err)
    ELSE Returned([success |-> out.status,
                   code    |-> code.opt.str,
                   stdout  |-> vec_to_str(out.stdout).val,
                   stderr  |-> vec_to_str(out.stderr).val])

\* the Ok(ClippyResponse { .. }) expression of Sandbox::clippy
clippy_response(out) ==
    IF ~vec_to_str(out.stdout).ok THEN Failed(vec_to_str(out.stdout).err)
    ELSE IF ~vec_to_str(out.stderr).ok THEN Failed(vec_to_str(out.stderr).err)
    ELSE Returned([success |-> out.status,
                   stdout  |-> vec_to_str(out.stdout).val,
                   stderr  |-> vec_to_str(out.stderr).val])

\* the path compile reads its artifact from
result_path(dir, target) == Join(dir, result_file_name(target))

CompileRequests == [op : {"compile"}, target : CompileTargets, channel : Channels,
                    mode : Modes, tests : BOOLEAN, code : Sources]
ExecuteRequests == [op : {"execute"}, channel : Channels,
                    mode : Modes, tests : BOOLEAN, code : Sources]
FormatRequests == [op : {"format"}, code : Sources]
ClippyRequests == [op : {"clippy"}, code : Sources]

NoEnv == [wrote |-> Absent, input_at_exit |-> Absent]
\* what the system calls of read may meet on a file in state f: no error
\* (a missing file is the NotFound that read handles), an error other than
\* NotFound on open, or, once the file is open, an error on reading it
IoOutcomes(f) == {"ok", "open"} \cup (IF f.exists THEN {"read"} ELSE {})

-----------------------------------------------------------------------------
(* State machine *)

\* Sandbox::new has succeeded: an empty temporary file and an empty
\* temporary directory, uniquely named
NoRequest == [op |-> "none"]

Init ==
    /\ input_file = InputName
    /\ output_dir = OutputName
    /\ fork_bomb_prevention \in BOOLEAN
    /\ fs = [p \in HostFiles |-> IF p = input_file THEN File(<<>>) ELSE Absent]
    /\ pc = "idle"
    /\ req = NoRequest
    /\ cmd = <<>>
    /\ output = NoOutput
    /\ result = Pending
    /\ log = <<>>
    /\ env = NoEnv

\* the head of every operation: write_source_code, then the command is built
Begin(r, command) ==
    /\ pc = "idle"
    /\ \E w \in write_source_code(fs[input_file], r.code) :
        /\ fs' = [fs EXCEPT ![input_file] = w.file]
        /\ log' = <<[step |-> "write", path |-> input_file, io |-> w.io, ok |-> w.ok]>>
        /\ pc' = try(w, "run")
        /\ result' = IF w.ok THEN Pending ELSE Failed("UnableToCreateSourceFile")
        /\ cmd' = IF w.ok THEN command ELSE <<>>
    /\ req' = r
    /\ output' = NoOutput
    /\ env' = NoEnv
    /\ UNCHANGED <<input_file, output_dir, fork_bomb_prevention>>

\* Sandbox::compile up to command.output()
Compile ==
    \E r \in CompileRequests :
        Begin(r, compile_command(input_file, output_dir, fork_bomb_prevention,
                                 r.target, r.channel, r.mode, r.tests))

\* Sandbox::execute up to command.output()
Execute ==
    \E r \in ExecuteRequests :
        Begin(r, execute_command(input_file, output_dir, fork_bomb_prevention,
                                 r.channel, r.mode, r.tests))

\* Sandbox::format up to command.output()
Format ==
    \E r \in FormatRequests :
        Begin(r, format_command(input_file, output_dir, fork_bomb_prevention))

\* Sandbox::clippy up to command.output()
Clippy ==
    \E r \in ClippyRequests :
        Begin(r, clippy_command(input_file, output_dir, fork_bomb_prevention))

\* command.output(): docker cannot be started, or the process runs to its
\* exit (or its kill) and its status and captured streams come back
RunCommand ==
    /\ pc = "run"
    /\ \/ /\ log' = Append(log, [step |-> "exec", path |-> "docker",
                                   io |-> "spawn", ok |-> FALSE])
          /\ pc' = try([ok |-> FALSE], "finish")
          /\ result' = Failed("UnableToExecuteCompiler")
          /\ UNCHANGED <<fs, output, env>>
       \/ \E status \in BOOLEAN, so \in ProcOutputs, se \in ProcOutputs,
             e \in ProcessEffects(cmd, fs) :
          /\ log' = Append(log, [step |-> "exec", path |-> "docker",
                                   io |-> "ok", ok |-> TRUE])
          /\ pc' = try([ok |-> TRUE], "finish")
          /\ output' = [status |-> status, stdout |-> so, stderr |-> se]
          /\ fs' = e.fs
          /\ env' = [wrote |-> e.wrote, input_at_exit |-> e.fs[input_file]]
          /\ UNCHANGED result
    /\ UNCHANGED <<input_file, output_dir, fork_bomb_prevention, req, cmd>>

\* the end of a call that reads a file back (compile and format): the read
\* of path met io, and the call returns res
FinishReading(path, io, res) ==
    /\ pc = "finish"
    /\ log' = Append(log, [step |-> "read", path |-> path, io |-> io,
                           ok |-> read(fs[path], io).ok])
    /\ result' = res
    /\ pc' = "done"
    /\ UNCHANGED <<input_file, output_dir, fork_bomb_prevention, fs, req, cmd,
                   output, env>>

\* the end of a call that reads nothing back (execute and clippy)
FinishPlain(res) ==
    /\ pc = "finish"
    /\ result' = res
    /\ pc' = "done"
    /\ UNCHANGED <<input_file, output_dir, fork_bomb_prevention, fs, req, cmd,
                   output, env, log>>

\* Sandbox::compile after command.output()
CompileFinish ==
    /\ req.op = "compile"
    /\ \E io \in IoOutcomes(fs[result_path(output_dir, req.target)]) :
        FinishReading(result_path(output_dir, req.target), io,
            compile_response(output,
                read(fs[result_path(output_dir, req.target)], io)))

\* Sandbox::execute after command.output()
ExecuteFinish == req.op = "execute" /\ FinishPlain(execute_response(output))

\* Sandbox::format after command.output()
FormatFinish ==
    /\ req.op = "format"
    /\ \E io \in IoOutcomes(fs[input_file]) :
        FinishReading(input_file, io,
            format_response(output, read(fs[input_file], io)))

\* Sandbox::clippy after command.output()
ClippyFinish == req.op = "clippy" /\ FinishPlain(clippy_response(output))

\* the call returns: the caller takes the result, and the request, the
\* command and the process output are dropped; the Sandbox and its files stay
Return ==
    /\ pc = "done"
    /\ pc' = "idle"
    /\ req' = NoRequest
    /\ cmd' = <<>>
    /\ output' = NoOutput
    /\ result' = Pending
    /\ log' = <<>>
    /\ env' = NoEnv
    /\ UNCHANGED <<input_file, output_dir, fork_bomb_prevention, fs>>

Next ==
    \/ Compile
    \/ Execute
    \/ Format
    \/ Clippy
    \/ RunCommand
    \/ CompileFinish
    \/ ExecuteFinish
    \/ FormatFinish
    \/ ClippyFinish
    \/ Return

Spec == Init /\ [][Next]_vars

-----------------------------------------------------------------------------
(* Properties of the command line *)

\* a command has been built for the current call
Built == pc \in {"run", "finish", "done"} /\ cmd # <<>>

\* the process of the current call has been started and has exited
Ran == pc \in {"finish", "done"} /\ Len(log) >= 2 /\ log[2].ok

\* a memory size such as "256m", in megabytes; 0 when it is none
Megabytes(s) ==
    IF \E n \in 1..512 : s = ToString(n) \o "m"
    THEN CHOOSE n \in 1..512 : s = ToString(n) \o "m"
    ELSE 0

\* C1: for each of compile, execute, format and clippy and every request, the
\* docker arguments handed to command.output() hold, before the image: run, --rm, the mount of the input
\* file to /playground/src/main.rs, the mount of the output directory to
\* /playground-result, --workdir /playground, --net none, --memory 256m,
\* --memory-swap 320m (more than the memory ceiling) and
\* --env PLAYGROUND_TIMEOUT=10
C1_WrapperAlwaysIsolates ==
    pc = "run" =>
        /\ Wrapper(cmd)[1] = "run"
        /\ "--rm" \in Range(Wrapper(cmd))
        /\ HasOption(cmd, "--volume", input_file \o ":/playground/src/main.rs")
        /\ HasOption(cmd, "--volume", output_dir \o ":/playground-result")
        /\ HasOption(cmd, "--workdir", "/playground")
        /\ HasOption(cmd, "--net", "none")
        /\ HasOption(cmd, "--memory", "256m")
        /\ HasOption(cmd, "--memory-swap", "320m")
        /\ Megabytes(ValueAfter(Wrapper(cmd), "--memory")) > 0
        /\ Megabytes(ValueAfter(Wrapper(cmd), "--memory-swap"))
             > Megabytes(ValueAfter(Wrapper(cmd), "--memory"))
        /\ HasOption(cmd, "--env", "PLAYGROUND_TIMEOUT=10")
        /\ Image(cmd) \in {"rust-stable", "rust-beta", "rust-nightly",
                           "rustfmt", "clippy"}

\* a formatter process has run under the wrapper with the process limit on
C1_Witness ==
    Ran /\ req.op = "format" /\ fork_bomb_prevention
        /\ HasOption(cmd, "--net", "none")

\* the arguments C8 states for a compile or execute request
ExpectedInner(r) ==
    <<IF r.channel = "Stable" THEN "rust-stable"
      ELSE IF r.channel = "Beta" THEN "rust-beta" ELSE "rust-nightly">>
    \o <<"cargo">>
    \o <<IF r.op = "compile" THEN "rustc"
         ELSE IF r.tests THEN "test" ELSE "run">>
    \o (IF r.mode = "Release" THEN <<"--release">> ELSE <<>>)
    \o (IF r.op = "compile"
        THEN <<"--", "-o", "/playground-result/compilation",
               IF r.target = "Assembly" THEN "--emit=asm" ELSE "--emit=llvm-ir">>
        ELSE <<>>)

\* C8: for every (target, channel, mode, tests) the arguments after the
\* wrapper are the image fixed by the channel alone (pairwise distinct), cargo,
\* the subcommand (rustc for every compile request, test for an execute
\* request with tests, run without), --release exactly in release mode, and
\* for compile only `-- -o /playground-result/compilation` and the emission
\* flag
C8_InnerCommandExact ==
    /\ Built /\ req.op \in {"compile", "execute"} =>
        /\ <<Image(cmd)>> \o Inner(cmd) = ExpectedInner(req)
        /\ ("--release" \in Range(Inner(cmd))) <=> (req.mode = "Release")
    /\ \A c1, c2 \in Channels :
        container_name(c1) = container_name(c2) => c1 = c2

\* a compile request with the tests flag set, in release mode, has been run
C8_Witness ==
    /\ Ran /\ req.op = "compile" /\ req.tests /\ req.mode = "Release"
    /\ Inner(cmd)[2] = "rustc"

\* C9: target, emission flag and artifact file name are in lockstep: the file
\* compile reads back is the one the command makes the compiler write, that
\* is compilation.s with --emit=asm for Assembly and compilation.ll with
\* --emit=llvm-ir for LlvmIr, never the other target's file
C9_TargetFlagFileLockstep ==
    pc = "done" /\ req.op = "compile" /\ Len(log) = 3 =>
        /\ HostOf(cmd, EmittedFile(cmd)) = {log[3].path}
        /\ ValueAfter(Inner(cmd), "-o") = "/playground-result/compilation"
        /\ req.target = "Assembly" =>
              /\ "--emit=asm" \in Range(Inner(cmd))
              /\ "--emit=llvm-ir" \notin Range(Inner(cmd))
              /\ log[3].path = output_dir \o "/compilation.s"
        /\ req.target = "LlvmIr" =>
              /\ "--emit=llvm-ir" \in Range(Inner(cmd))
              /\ "--emit=asm" \notin Range(Inner(cmd))
              /\ log[3].path = output_dir \o "/compilation.ll"

\* an LlvmIr compile has read back the artifact its own run emitted
C9_Witness ==
    /\ pc = "done" /\ req.op = "compile" /\ req.target = "LlvmIr"
    /\ env.wrote.exists /\ result.ok /\ result.resp.code = env.wrote.data
    /\ ~fs[output_dir \o "/compilation.s"].exists

-----------------------------------------------------------------------------
(* Properties of the operations *)

\* no step of the call other than the process's exit status has failed
NoOtherFailure ==
    /\ IsUtf8(output.stdout) /\ IsUtf8(output.stderr)
    /\ req.op \in {"compile", "format"} => Len(log) = 3 /\ log[3].ok
    /\ req.op = "format" => fs[input_file].exists

\* C2: in each operation, when the process was started and exits with a
\* non-zero status and no other step fails, a response (no Error) is returned
\* whose success flag is false and whose stdout and stderr are the captured
\* text; the success flag is true exactly when the exit status is success
C2_ExitStatusIsData ==
    pc = "done" /\ Ran =>
        /\ NoOtherFailure => result.ok
        /\ result.ok =>
              /\ result.resp.success = output.status
              /\ result.resp.stdout = output.stdout
              /\ result.resp.stderr = output.stderr

\* an execute call whose process exited with a failure has returned a response
C2_Witness ==
    /\ pc = "done" /\ Ran /\ req.op = "execute"
    /\ ~output.status /\ result.ok /\ ~result.resp.success
    /\ result.resp.stderr = <<75>>

\* C3: in compile, after the process has run: if the expected artifact file
\* does not exist, a response is still returned and its code is empty, for
\* either exit status; if opening or reading the file fails with an I/O
\* error other than not-found, UnableToReadOutput is returned and no response
C3_MissingArtifactIsEmptyCode ==
    pc = "done" /\ req.op = "compile" /\ Len(log) = 3 =>
        /\ ~fs[log[3].path].exists /\ log[3].io = "ok" =>
              /\ log[3].ok
              /\ IsUtf8(output.stdout) /\ IsUtf8(output.stderr) => result.ok
              /\ result.ok => result.resp.code = <<>>
              /\ result.err \notin {"UnableToReadOutput", "OutputMissing"}
        /\ log[3].io # "ok" =>
              ~result.ok /\ result.err = "UnableToReadOutput"

\* a compile whose process succeeded without leaving an artifact has returned
\* a response with empty code
C3_Witness ==
    /\ pc = "done" /\ req.op = "compile" /\ Len(log) = 3
    /\ ~fs[log[3].path].exists /\ output.status
    /\ result.ok /\ result.resp.code = <<>>

\* C4 (as claimed): the code of each CompileResponse is the artifact that
\* call's own invocation wrote, and is empty when the invocation wrote none
C4_CodeIsOwnArtifact ==
    pc = "done" /\ req.op = "compile" /\ result.ok =>
        result.resp.code = (IF env.wrote.exists THEN env.wrote.data ELSE <<>>)

\* C5 (as claimed): an I/O error while writing the source, on create, on
\* write_all or on the flush, makes the operation return
\* UnableToCreateSourceFile; and when the write step returns Ok the input
\* file holds exactly the request's source before the process is started
C5_WriteErrorsAreReported ==
    /\ Len(log) >= 1 /\ log[1].io # "ok" =>
          ~log[1].ok /\ pc = "done" /\ result.err = "UnableToCreateSourceFile"
    /\ pc = "run" => fs[input_file] = File(req.code)

\* C6 (as claimed): when the bytes of stdout, of stderr or of the artifact
\* read back are not valid UTF-8 (and nothing else has failed), the operation
\* fails with OutputNotUtf8
C6_InvalidTextIsEncodingError ==
    pc = "done" /\ Ran
    /\ (req.op \in {"compile", "format"} => log[3].io = "ok")
    /\ (req.op = "format" => fs[input_file].exists)
    /\ \/ ~IsUtf8(output.stdout)
       \/ ~IsUtf8(output.stderr)
       \/ req.op \in {"compile", "format"}
            /\ fs[log[3].path].exists /\ ~IsUtf8(fs[log[3].path].data)
    => ~result.ok /\ result.err = "OutputNotUtf8"

\* the file the call has read back exists and holds bytes that are no text
ReadInvalidText ==
    /\ req.op \in {"compile", "format"} /\ Len(log) = 3 /\ log[3].io = "ok"
    /\ fs[log[3].path].exists /\ ~IsUtf8(fs[log[3].path].data)

\* C6 (amended): when stdout or stderr is not valid UTF-8 and the file read
\* before them has not failed, the operation fails with OutputNotUtf8; when
\* the file read back is not valid UTF-8 it fails with UnableToReadOutput;
\* and every text of a response is valid UTF-8 and is, byte for byte, what
\* was captured or read
C6_InvalidTextIsTypedError ==
    pc = "done" /\ Ran =>
        /\ ReadInvalidText => ~result.ok /\ result.err = "UnableToReadOutput"
        /\ /\ ~IsUtf8(output.stdout) \/ ~IsUtf8(output.stderr)
           /\ req.op \in {"compile", "format"} => log[3].ok
           /\ req.op = "format" => fs[input_file].exists
           => ~result.ok /\ result.err = "OutputNotUtf8"
        /\ result.ok =>
              /\ IsUtf8(result.resp.stdout) /\ result.resp.stdout = output.stdout
              /\ IsUtf8(result.resp.stderr) /\ result.resp.stderr = output.stderr
              /\ req.op \in {"compile", "format"} =>
                    /\ IsUtf8(result.resp.code)
                    /\ result.resp.code = fs[log[3].path].data

\* a compile whose artifact holds bytes that are no text has failed with
\* UnableToReadOutput
C6_Witness ==
    /\ pc = "done" /\ Ran /\ req.op = "compile" /\ ReadInvalidText
    /\ IsUtf8(output.stdout) /\ IsUtf8(output.stderr)
    /\ ~result.ok /\ result.err = "UnableToReadOutput"

\* C7: in format, the code of the response is the content of the input file
\* as it is after the formatter has exited, whatever the exit status; if the
\* file no longer exists then, the operation fails with OutputMissing rather
\* than returning empty code
C7_FormatReturnsFileContent ==
    pc = "done" /\ req.op = "format" /\ Len(log) = 3 =>
        /\ result.ok =>
              /\ env.input_at_exit.exists
              /\ result.resp.code = env.input_at_exit.data
        /\ ~env.input_at_exit.exists => ~result.ok
        /\ ~env.input_at_exit.exists /\ log[3].io = "ok" =>
              result.err = "OutputMissing"

\* a failing formatter run has rewritten the file and format has returned
\* the rewritten content
C7_Witness ==
    /\ pc = "done" /\ req.op = "format" /\ Len(log) = 3
    /\ log[1].io = "ok" /\ ~output.status /\ result.ok
    /\ result.resp.code # req.code
    /\ result.resp.code = env.input_at_exit.data

\* the steps of an operation, in order
Steps(op) ==
    IF op \in {"compile", "format"} THEN <<"write", "exec", "read">>
    ELSE <<"write", "exec">>

====
